---- MODULE Spec2Model ----
(***************************************************************************)
(* A model of the useModel hook (react-validated-model): the mutable copy  *)
(* of a DTO, its change tracking proxies, the dirty check, the validation  *)
(* lookup and the reset.                                                   *)
(*                                                                         *)
(* JavaScript objects live in a heap of numbered cells, so that reference  *)
(* identity (===), aliasing and in-place change are what they are in the   *)
(* program.  JSON.stringify and JSON.parse are modelled by what they do:   *)
(* a value becomes a sequence of tokens, a sequence of tokens is parsed    *)
(* into fresh cells.                                                       *)
(*                                                                         *)
(* Spec is one component and its caller.  SpecAlias has a caller that      *)
(* passes objects of the original to methods, SpecObserve one that also    *)
(* calls isDirty() and findErrors(), SpecDeep one that keeps old proxies   *)
(* across a new derivation, SpecTwo has two components, and SpecFind is    *)
(* findErrors on any validator result.                                     *)
(***************************************************************************)
EXTENDS Integers, Sequences, FiniteSets, TLC

\* Number of caller operations (reads, writes, calls, resets, renders) in a run.
MaxSteps == 3

----------------------------------------------------------------------------
(* JavaScript values.  Every value is a record of the same shape: t is the *)
(* result of typeof (with "null" and "proxy" set apart), s a string        *)
(* payload, n a number payload (for "object" the heap cell, for "proxy"    *)
(* the proxy's number).                                                    *)

Undef == [t |-> "undefined", s |-> "", n |-> 0]
Null == [t |-> "null", s |-> "", n |-> 0]
Str(s) == [t |-> "string", s |-> s, n |-> 0]
Num(n) == [t |-> "number", s |-> "", n |-> n]
Ref(id) == [t |-> "object", s |-> "", n |-> id]
PRef(p) == [t |-> "proxy", s |-> "", n |-> p]
Fn(name) == [t |-> "function", s |-> name, n |-> 0]
Bool(b) == [t |-> "boolean", s |-> "", n |-> IF b THEN 1 ELSE 0]

\* The argument of findErrors: left out, or a string given by its characters.
NoPath == [given |-> FALSE, chars |-> <<>>]
PathArg(chars) == [given |-> TRUE, chars |-> chars]

\* The strings and numbers that occur as property values.
Strings == {"Jochen", "Jo"}
Numbers == {1, 2}
Scalars == {Null} \cup {Str(s) : s \in Strings} \cup {Num(n) : n \in Numbers}

\* The property names of the DTOs, and the array methods called on them.
Names == {"name", "children", "age"}
Methods == {"push", "pop", "splice", "slice", "map"}

\* Heap cells: a plain object (keys in insertion order) or an array.
Obj(keys, vals) == [kind |-> "object", keys |-> keys, vals |-> vals]
Arr(vals) == [kind |-> "array", keys |-> <<>>, vals |-> vals]

\* The own enumerable keys of a cell, in enumeration order.
OwnKeys(o) ==
    IF o.kind = "array" THEN [i \in 1..Len(o.vals) |-> ToString(i - 1)] ELSE o.keys

KeyIndex(o, k) ==
    LET ks == OwnKeys(o)
    IN  IF \E i \in 1..Len(ks) : ks[i] = k
        THEN CHOOSE i \in 1..Len(ks) : ks[i] = k
        ELSE 0

\* target[prop]
GetProp(o, k) ==
    IF KeyIndex(o, k) # 0 THEN o.vals[KeyIndex(o, k)]
    ELSE IF o.kind = "array" /\ k = "length" THEN Num(Len(o.vals))
    ELSE IF o.kind = "array" /\ k \in Methods THEN Fn(k)
    ELSE Undef

\* target[prop] = v, for an own key or a new key of a plain object
PutProp(o, k, v) ==
    IF KeyIndex(o, k) # 0 THEN [o EXCEPT !.vals[KeyIndex(o, k)] = v]
    ELSE [o EXCEPT !.keys = Append(@, k), !.vals = Append(@, v)]

----------------------------------------------------------------------------
(* JSON.stringify: a value to its text, as a sequence of tokens.           *)

Quote(s) == "\"" \o s \o "\""

ScalarToken(v) ==
    CASE v.t = "string" -> Quote(v.s)
      [] v.t = "number" -> ToString(v.n)
      [] OTHER -> "null"

RECURSIVE JSONstringifyValue(_, _), stringifyMembers(_, _, _, _), stringifyElements(_, _, _)

\* The members of object o from key i on; first tells whether none was written yet.
\* Members whose value is undefined are left out.
stringifyMembers(h, o, i, first) ==
    IF i > Len(o.keys) THEN <<>>
    ELSE IF o.vals[i].t \in {"undefined", "function"}
         THEN stringifyMembers(h, o, i + 1, first)
         ELSE (IF first THEN <<>> ELSE <<",">>)
              \o <<Quote(o.keys[i]), ":">>
              \o JSONstringifyValue(h, o.vals[i])
              \o stringifyMembers(h, o, i + 1, FALSE)

\* The elements of array o from index i on; undefined is written as null.
stringifyElements(h, o, i) ==
    IF i > Len(o.vals) THEN <<>>
    ELSE (IF i = 1 THEN <<>> ELSE <<",">>)
         \o (IF o.vals[i].t \in {"undefined", "function"}
             THEN <<"null">>
             ELSE JSONstringifyValue(h, o.vals[i]))
         \o stringifyElements(h, o, i + 1)

JSONstringifyValue(h, v) ==
    IF v.t = "object"
    THEN IF h[v.n].kind = "array"
         THEN <<"[">> \o stringifyElements(h, h[v.n], 1) \o <<"]">>
         ELSE <<"{">> \o stringifyMembers(h, h[v.n], 1, TRUE) \o <<"}">>
    ELSE <<ScalarToken(v)>>

\* JSON.stringify(target) of a heap cell
JSONstringify(h, id) == JSONstringifyValue(h, Ref(id))

----------------------------------------------------------------------------
(* JSON.parse: a sequence of tokens to a value built from fresh cells.     *)
(* The result is [v: the value, i: the next token, h: the heap with the    *)
(* new cells appended].                                                    *)

TokenScalar(tok) == CHOOSE v \in Scalars : ScalarToken(v) = tok
TokenKey(tok) == CHOOSE k \in Names : Quote(k) = tok

RECURSIVE parseValue(_, _, _), parseMembers(_, _, _, _, _), parseElements(_, _, _, _)

parseMembers(toks, i, h, keys, vals) ==
    IF toks[i] = "}"
    THEN [v |-> Ref(Len(h) + 1), i |-> i + 1, h |-> Append(h, Obj(keys, vals))]
    ELSE IF toks[i] = ","
    THEN parseMembers(toks, i + 1, h, keys, vals)
    ELSE LET r == parseValue(toks, i + 2, h)
         IN  parseMembers(toks, r.i, r.h, Append(keys, TokenKey(toks[i])), Append(vals, r.v))

parseElements(toks, i, h, vals) ==
    IF toks[i] = "]"
    THEN [v |-> Ref(Len(h) + 1), i |-> i + 1, h |-> Append(h, Arr(vals))]
    ELSE IF toks[i] = ","
    THEN parseElements(toks, i + 1, h, vals)
    ELSE LET r == parseValue(toks, i, h)
         IN  parseElements(toks, r.i, r.h, Append(vals, r.v))

parseValue(toks, i, h) ==
    IF toks[i] = "{" THEN parseMembers(toks, i + 1, h, <<>>, <<>>)
    ELSE IF toks[i] = "[" THEN parseElements(toks, i + 1, h, <<>>)
    ELSE [v |-> TokenScalar(toks[i]), i |-> i + 1, h |-> h]

JSONparse(toks, h) == parseValue(toks, 1, h)

----------------------------------------------------------------------------
(* The state.                                                              *)

VARIABLES
    heap,        \* the JavaScript heap: a sequence of cells, a cell's number is its identity
    proxies,     \* the proxies made by createProxy: [target, getMap], numbered by creation
    counter,     \* the module's global counter
    resetId,     \* React state: the reset indicator, as last set
    refreshId,   \* React state: the refresh indicator, as last set
    original,    \* the original passed to the last call of useModel
    originalStr, \* useMemo: the serialization of the original
    model,       \* useMemo: the cell of the model data
    proxy,       \* useMemo: the proxy handed to the caller
    deps,        \* the resetId and refreshId the last call of useModel has seen
    schema,      \* the schema passed to useModel
    leaked,      \* the cells the caller holds a plain reference to
    last,        \* the last operation, its arguments and its result
    steps,       \* the number of operations so far
    probe,       \* a call of findErrors on a given validator result: [all, prop, result, done]
    other,       \* the hook state of a second component that calls useModel
    compiled,    \* useMemo: the schema object the validator was compiled from, and
                 \* the number of calls of compile so far
    limit        \* the number of operations the caller makes in a run

vars == <<heap, proxies, counter, resetId, refreshId, original, originalStr, model,
          proxy, deps, schema, leaked, last, steps, probe, other, compiled, limit>>

\* The caller's objects before useModel is called for the first time.  The
\* story begins with OrigS or OrigA; later the caller passes OrigA, OrigB (the
\* content of OrigA in another key order) or OrigC (the content and order of
\* OrigA).  Item is an object the caller writes or passes to push.
OrigA == 3
OrigB == 4
OrigC == 5
OrigS == 6
Item == 7
CallerHeap ==
    << Obj(<<"age">>, <<Num(1)>>),
       Arr(<<Ref(1)>>),
       Obj(<<"name", "children">>, <<Str("Jochen"), Ref(2)>>),
       Obj(<<"children", "name">>, <<Ref(2), Str("Jochen")>>),
       Obj(<<"name", "children">>, <<Str("Jochen"), Ref(2)>>),
       Obj(<<"name">>, <<Str("Jochen")>>),
       Obj(<<"age">>, <<Num(2)>>) >>
Originals == {OrigA, OrigB, OrigC}

\* The schema of the story and the default schema (no rule at all).
MinLen == 5
SimpleValidate == [strict |-> TRUE, rules |-> <<[field |-> "name", type |-> "string", min |-> MinLen]>>]
DefaultSchema == [strict |-> FALSE, rules |-> <<>>]
Schemas == {SimpleValidate, DefaultSchema}

\* The record of the last operation: the proxy it went to, the property or
\* method, the value passed, the value returned, whether isDirty() held before
\* it, whether the proxy had the property in its getMap before it, and whether
\* it has called refresh (for a call of useModel: has derived the model anew).
Op(op, p, prop, item, result, cached, changed) ==
    [op |-> op, p |-> p, prop |-> prop, item |-> item, result |-> result,
     dirty |-> JSONstringify(heap, model) # originalStr,
     cached |-> cached, changed |-> changed]

----------------------------------------------------------------------------
(* useModel                                                                *)

\* createProxy(obj): a new proxy on obj with an empty getMap.
createProxy(obj) == [target |-> obj, getMap |-> <<>>]

\* A slip: the serialization of the original is made once and kept.
memoOriginalStr_once(orig) == originalStr

\* originalStr = useMemo(() => JSON.stringify(original), [original])
memoOriginalStr(orig) ==
    IF orig # original THEN JSONstringify(heap, orig) ELSE originalStr

\* Slips in the dependencies of the model: resetId is missing; only resetId is
\* there; original is missing.
modelDepsChanged_noReset(orig, str) == str # originalStr \/ orig # original
modelDepsChanged_resetOnly(orig, str) == resetId # deps.resetId
modelDepsChanged_noOriginal(orig, str) == str # originalStr \/ resetId # deps.resetId

\* Whether a dependency of the model has changed: [originalStr, original, resetId]
modelDepsChanged(orig, str) ==
    str # originalStr \/ orig # original \/ resetId # deps.resetId

\* Whether a dependency of the proxy has changed: [model, createProxy, refreshId]
proxyDepsChanged(newModel) ==
    newModel # model \/ refreshId # deps.refreshId

\* The schema object useModel gets in a call made when the counter is c: the
\* caller's object (the story keeps one for all calls), or, when the caller
\* passes none, the object the default parameter makes in this call.
SchemaArg(sch, c) ==
    IF sch = DefaultSchema THEN [given |-> FALSE, call |-> c]
    ELSE [given |-> TRUE, call |-> 0]

\* validator = useMemo(() => new Validator().compile(schema), [schema]): memo
\* is [schema: the object of the last compilation, count: the compilations].
memoValidator(memo, arg) ==
    IF arg # memo.schema THEN [schema |-> arg, count |-> memo.count + 1] ELSE memo

\* One call of useModel(orig, schema) by React, after the first: the hooks are
\* evaluated in order against the values the previous call has left.
useModel(orig) ==
    LET str == memoOriginalStr(orig)
        derive == modelDepsChanged(orig, str)
        parsed == JSONparse(str, heap)
        newModel == IF derive THEN parsed.v.n ELSE model
        wrap == proxyDepsChanged(newModel)
    IN  /\ counter' = counter + 2
        /\ original' = orig
        /\ originalStr' = str
        /\ heap' = IF derive THEN parsed.h ELSE heap
        /\ model' = newModel
        /\ proxies' = IF wrap THEN Append(proxies, createProxy(newModel)) ELSE proxies
        /\ proxy' = IF wrap THEN Len(proxies) + 1 ELSE proxy
        /\ deps' = [resetId |-> resetId, refreshId |-> refreshId]
        /\ compiled' = memoValidator(compiled, SchemaArg(schema, counter))
        /\ UNCHANGED <<resetId, refreshId, schema, leaked, probe, other, limit>>

\* The first call of useModel(orig, sch): both indicators take their first value.
Mount(orig, sch) ==
    LET str == JSONstringify(CallerHeap, orig)
        parsed == JSONparse(str, CallerHeap)
    IN  /\ counter = 2
        /\ resetId = 1
        /\ refreshId = 2
        /\ original = orig
        /\ originalStr = str
        /\ heap = parsed.h
        /\ model = parsed.v.n
        /\ proxies = <<createProxy(parsed.v.n)>>
        /\ proxy = 1
        /\ deps = [resetId |-> 1, refreshId |-> 2]
        /\ schema = sch
        /\ compiled = [schema |-> SchemaArg(sch, 0), count |-> 1]
        /\ leaked = {}

\* The hook state of a component that has not called useModel.
NoController ==
    [mounted |-> FALSE, resetId |-> 0, refreshId |-> 0, original |-> 0, originalStr |-> <<>>,
     model |-> 0, proxy |-> 0, deps |-> [resetId |-> 0, refreshId |-> 0], owned |-> {},
     compiled |-> [schema |-> SchemaArg(DefaultSchema, 0), count |-> 0]]

Init ==
    /\ \E orig \in {OrigA, OrigS}, sch \in Schemas : Mount(orig, sch)
    /\ other = NoController
    /\ limit = MaxSteps
    /\ last = [op |-> "mount", p |-> 0, prop |-> "", item |-> Undef, result |-> Undef,
               dirty |-> FALSE, cached |-> FALSE, changed |-> TRUE]
    /\ steps = 0
    /\ probe = [all |-> [valid |-> TRUE, errors |-> <<>>], prop |-> NoPath,
                result |-> <<>>, done |-> FALSE]

\* React calls useModel again: a state of the hook has been set, or the caller
\* passes another original.
Render(orig) ==
    /\ steps < limit
    /\ orig # original \/ resetId # deps.resetId \/ refreshId # deps.refreshId
    /\ useModel(orig)
    /\ last' = Op("render", proxy, "", Ref(orig), Ref(original), FALSE,
                   modelDepsChanged(orig, memoOriginalStr(orig)))
    /\ steps' = steps + 1

\* A slip: refresh sets the indicator to the counter as it is.
refresh_noIncrement(called) ==
    IF called
    THEN counter' = counter /\ refreshId' = counter
    ELSE UNCHANGED <<counter, refreshId>>

\* refresh(): setRefreshId(++counter), when called is true
refresh(called) ==
    IF called
    THEN counter' = counter + 1 /\ refreshId' = counter + 1
    ELSE UNCHANGED <<counter, refreshId>>

\* control.reset(): setResetId(++counter)
reset ==
    /\ steps < limit
    /\ counter' = counter + 1
    /\ resetId' = counter + 1
    /\ last' = Op("reset", 0, "", Undef, Undef, FALSE, FALSE)
    /\ steps' = steps + 1
    /\ UNCHANGED <<heap, proxies, refreshId, original, originalStr, model, proxy, deps,
                   schema, leaked, probe, other, compiled, limit>>

\* The proxy's get trap: get(target, prop) of proxy p.  The result is [v: the
\* value returned, ps: the proxies afterwards].  A method is returned as the
\* wrapper function, which CallMethod runs.
get(ps, h, p, prop) ==
    LET getMap == ps[p].getMap
        value == GetProp(h[ps[p].target], prop)
        child == Len(ps) + 1
    IN  IF prop \in DOMAIN getMap THEN [v |-> PRef(getMap[prop]), ps |-> ps]
        ELSE IF value.t \in {"undefined", "null"} THEN [v |-> value, ps |-> ps]
        ELSE IF value.t = "object"
        THEN [v |-> PRef(child),
              ps |-> Append([ps EXCEPT ![p].getMap = (prop :> child) @@ @],
                            createProxy(value.n))]
        ELSE [v |-> value, ps |-> ps]

\* JSON.parse(JSON.stringify(item)): [v: the copy, h: the heap with its cells].
JSONcopy(h, item) ==
    LET r == JSONparse(JSONstringifyValue(h, item), h) IN [v |-> r.v, h |-> r.h]

\* What set stores for item: item itself when undefined, else its JSON copy.
Normalized(h, item) == IF item = Undef THEN [v |-> item, h |-> h] ELSE JSONcopy(h, item)

\* A slip: set leaves the property in the getMap.
set_keepCache(ps, h, p, prop, item) ==
    LET target == ps[p].target
        stored == Normalized(h, item)
    IN  IF GetProp(h[target], prop) # item
        THEN [ps |-> ps,
              h |-> [stored.h EXCEPT ![target] = PutProp(@, prop, stored.v)],
              changed |-> TRUE]
        ELSE [ps |-> ps, h |-> h, changed |-> FALSE]

\* A slip: set empties the getMap.
set_clearCache(ps, h, p, prop, item) ==
    LET target == ps[p].target
        stored == Normalized(h, item)
    IN  IF GetProp(h[target], prop) # item
        THEN [ps |-> [ps EXCEPT ![p].getMap = <<>>],
              h |-> [stored.h EXCEPT ![target] = PutProp(@, prop, stored.v)],
              changed |-> TRUE]
        ELSE [ps |-> ps, h |-> h, changed |-> FALSE]

\* A slip: set does not compare item with the value the target has.
set_always(ps, h, p, prop, item) ==
    LET target == ps[p].target
        getMap == ps[p].getMap
        stored == Normalized(h, item)
    IN  [ps |-> [ps EXCEPT ![p].getMap = [k \in DOMAIN getMap \ {prop} |-> getMap[k]]],
         h |-> [stored.h EXCEPT ![target] = PutProp(@, prop, stored.v)],
         changed |-> TRUE]

\* The proxy's set trap: set(target, prop, item) of proxy p.  The result is
\* [ps: the proxies, h: the heap afterwards, changed: whether refresh is called].
set(ps, h, p, prop, item) ==
    LET target == ps[p].target
        getMap == ps[p].getMap
        stored == Normalized(h, item)
    IN  IF GetProp(h[target], prop) # item
        THEN [ps |-> [ps EXCEPT ![p].getMap = [k \in DOMAIN getMap \ {prop} |-> getMap[k]]],
              h |-> [stored.h EXCEPT ![target] = PutProp(@, prop, stored.v)],
              changed |-> TRUE]
        ELSE [ps |-> ps, h |-> h, changed |-> FALSE]

\* value.call(target, ...args) for the array methods: [h: the heap afterwards,
\* result: what the method returns].  splice is splice(0, 1), the callback of
\* map is the identity.
ArrayMethod(h, target, method, item) ==
    LET vals == h[target].vals
        n == Len(vals)
    IN  CASE method = "push" ->
               [h |-> [h EXCEPT ![target].vals = Append(vals, item)], result |-> Num(n + 1)]
          [] method = "pop" ->
               IF n = 0 THEN [h |-> h, result |-> Undef]
               ELSE [h |-> [h EXCEPT ![target].vals = SubSeq(vals, 1, n - 1)],
                     result |-> vals[n]]
          [] method = "splice" ->
               [h |-> Append([h EXCEPT ![target].vals = SubSeq(vals, 2, n)],
                             Arr(SubSeq(vals, 1, IF n = 0 THEN 0 ELSE 1))),
                result |-> Ref(Len(h) + 1)]
          [] OTHER ->
               [h |-> Append(h, Arr(vals)), result |-> Ref(Len(h) + 1)]

\* A slip: the wrapper does not compare the target before and after the call.
wrapper_noCompare(h, target, method, item) ==
    LET called == ArrayMethod(h, target, method, item)
    IN  [h |-> called.h, result |-> called.result, changed |-> FALSE]

\* The wrapper function get returns for a method of target: the call is passed
\* to the target; [h: the heap afterwards, result: what the method returns,
\* changed: whether the target's serialization differs, so that refresh is called].
wrapper(h, target, method, item) ==
    LET before == JSONstringify(h, target)
        called == ArrayMethod(h, target, method, item)
    IN  [h |-> called.h, result |-> called.result,
         changed |-> JSONstringify(called.h, target) # before]

----------------------------------------------------------------------------
(* The validator (fastest-validator, compiled from the schema) and the     *)
(* control object.                                                         *)

\* A field path as its characters.
Path(k) ==
    CASE k = "name" -> <<"n", "a", "m", "e">>
      [] k = "children" -> <<"c", "h", "i", "l", "d", "r", "e", "n">>
      [] k = "age" -> <<"a", "g", "e">>
      [] OTHER -> <<>>

Error(type, field) == [type |-> type, field |-> field]

\* The errors of one rule { type: 'string', min } on the value of its field.
RuleErrors(rule, value) ==
    IF value.t \in {"undefined", "null"} THEN <<Error("required", Path(rule.field))>>
    ELSE IF value.t # "string" THEN <<Error("string", Path(rule.field))>>
    ELSE IF Len(value.s) < rule.min THEN <<Error("stringMin", Path(rule.field))>>
    ELSE <<>>

RECURSIVE RulesErrors(_, _, _)
RulesErrors(rules, o, i) ==
    IF i > Len(rules) THEN <<>>
    ELSE RuleErrors(rules[i], GetProp(o, rules[i].field)) \o RulesErrors(rules, o, i + 1)

\* $$strict: one error, without a field, when the data has a key without a rule.
StrictErrors(sch, o) ==
    IF sch.strict /\ \E i \in 1..Len(o.keys) :
                        \A j \in 1..Len(sch.rules) : sch.rules[j].field # o.keys[i]
    THEN <<Error("objectStrict", <<>>)>>
    ELSE <<>>

\* new Validator().compile(schema), applied to the data in cell m: true or the errors.
validator(sch, h, m) ==
    LET errs == RulesErrors(sch.rules, h[m], 1) \o StrictErrors(sch, h[m])
    IN  [valid |-> errs = <<>>, errors |-> errs]

\* A slip: the validator is run on the original.
errors_ofOriginal == validator(schema, heap, original)

\* errors(): the validator on the model data
errors == validator(schema, heap, model)

StartsWith(str, prefix) ==
    Len(str) >= Len(prefix) /\ SubSeq(str, 1, Len(prefix)) = prefix

\* A slip: the fields of array elements (prefix2) are forgotten.
FilterErrors_dotOnly(all, prop) ==
    SelectSeq(all, LAMBDA e :
        /\ e.field # <<>>
        /\ \/ e.field = prop
           \/ Len(e.field) > Len(prop) /\ SubSeq(e.field, 1, Len(prop) + 1) = prop \o <<".">>)

\* all.filter(...) of findErrors
FilterErrors(all, prop) ==
    SelectSeq(all, LAMBDA e :
        /\ e.field # <<>>
        /\ \/ e.field = prop
           \/ StartsWith(e.field, prop \o <<".">>)
           \/ StartsWith(e.field, prop \o <<"[">>))

\* findErrors(prop) on the validator's result all.  !prop holds for a prop
\* left out and for the empty string.
FindErrors(all, prop) ==
    IF all.valid THEN <<>>
    ELSE IF ~prop.given \/ prop.chars = <<>> THEN all.errors
    ELSE FilterErrors(all.errors, prop.chars)

\* control.findErrors(prop)
findErrors(prop) == FindErrors(errors, prop)

\* control.isDirty()
isDirty == JSONstringify(heap, model) # originalStr

----------------------------------------------------------------------------------------------------------------------------------------------------
(* The caller.  An operation is one JavaScript expression on a proxy the   *)
(* caller holds: proxy.a.b (reads), proxy.a.b = item (reads, then a        *)
(* write), proxy.a.method(item) (reads, then a call).  JavaScript runs it  *)
(* to its end before React calls useModel again.                           *)

\* The reads p[path[1]][path[2]]...: [ok: every read but the last gave an
\* object; v: the last value read, the proxy itself for the empty path;
\* ps: the proxies afterwards].
RECURSIVE navigate(_, _, _, _)
navigate(ps, h, p, path) ==
    IF path = <<>> THEN [ok |-> TRUE, v |-> PRef(p), ps |-> ps]
    ELSE LET r == get(ps, h, p, Head(path))
         IN  IF Len(path) = 1 THEN [ok |-> TRUE, v |-> r.v, ps |-> r.ps]
             ELSE IF r.v.t = "proxy" THEN navigate(r.ps, h, r.v.n, Tail(path))
             ELSE [ok |-> FALSE, v |-> Undef, ps |-> r.ps]

OwnProps(h, c) == {OwnKeys(h[c])[i] : i \in 1..Len(OwnKeys(h[c]))}

\* The properties of proxy p whose read gives a proxy: the cached ones and
\* the own ones that hold an object.
ObjectProps(ps, h, p) ==
    DOMAIN ps[p].getMap
        \cup {k \in OwnProps(h, ps[p].target) : GetProp(h[ps[p].target], k).t = "object"}

\* The paths from proxy p that lead to a proxy.
PathsFrom(p) ==
    {<<>>} \cup {<<k>> : k \in ObjectProps(proxies, heap, p)}
           \cup UNION {{<<k, l>> : l \in LET r == get(proxies, heap, p, k)
                                          IN  ObjectProps(r.ps, heap, r.v.n)}
                         : k \in ObjectProps(proxies, heap, p)}

\* The properties the caller reads on the proxy at the end of path, and the
\* ones it writes.
ReadProps(p, path) ==
    LET nav == navigate(proxies, heap, p, path)
    IN  OwnProps(heap, nav.ps[nav.v.n].target) \cup DOMAIN nav.ps[nav.v.n].getMap
            \cup {"length"}
WriteProps(p, path) ==
    LET nav == navigate(proxies, heap, p, path)
    IN  OwnProps(heap, nav.ps[nav.v.n].target)

\* The cells reachable from cell c by references.
RECURSIVE Reach(_, _)
Reach(h, c) ==
    {c} \cup UNION {Reach(h, h[c].vals[i].n) :
                       i \in {j \in 1..Len(h[c].vals) : h[c].vals[j].t = "object"}}

\* The cells the caller holds a plain reference to, or reaches from those.
RawReach ==
    LET held == leaked \cup {Item}
        Children(c) == {heap[c].vals[i].n : i \in {j \in 1..Len(heap[c].vals) :
                                                     heap[c].vals[j].t = "object"}}
    IN  held \cup UNION {Children(c) : c \in held}

\* The values the caller writes to property prop.
Items(prop) ==
    CASE prop = "name" -> {Str("Jo"), Str("Jochen"), Undef}
      [] prop = "age" -> {Num(1), Num(2)}
      [] prop = "children" -> {Ref(2)}
      [] OTHER -> {Ref(c) : c \in {d \in RawReach : heap[d].kind = "object"}}

\* value = p.path.prop
Get(p, path, prop) ==
    /\ steps < limit
    /\ LET nav == navigate(proxies, heap, p, path)
           q == nav.v.n
           r == get(nav.ps, heap, q, prop)
       IN  /\ proxies' = r.ps
           /\ last' = Op("get", q, prop, Undef, r.v, prop \in DOMAIN nav.ps[q].getMap, FALSE)
    /\ steps' = steps + 1
    /\ UNCHANGED <<heap, counter, resetId, refreshId, original, originalStr, model, proxy,
                   deps, schema, leaked, probe, other, compiled, limit>>

\* p.path.prop = item
Set(p, path, prop, item) ==
    /\ steps < limit
    /\ LET nav == navigate(proxies, heap, p, path)
           q == nav.v.n
           r == set(nav.ps, heap, q, prop, item)
       IN  /\ proxies' = r.ps
           /\ heap' = r.h
           /\ refresh(r.changed)
           /\ last' = Op("set", q, prop, item, Undef, prop \in DOMAIN nav.ps[q].getMap,
                          r.changed)
    /\ steps' = steps + 1
    /\ UNCHANGED <<resetId, original, originalStr, model, proxy, deps, schema, leaked,
                   probe, other, compiled, limit>>

\* result = p.path.method(item): the read of the method gives the wrapper, which
\* is called.  The caller keeps the result.
CallMethod(p, path, method, item) ==
    /\ steps < limit
    /\ LET nav == navigate(proxies, heap, p, path)
           q == nav.v.n
           r == wrapper(heap, nav.ps[q].target, method, item)
       IN  /\ heap[nav.ps[q].target].kind = "array"
           /\ get(nav.ps, heap, q, method).v = Fn(method)
           /\ proxies' = nav.ps
           /\ heap' = r.h
           /\ refresh(r.changed)
           /\ last' = Op(method, q, method, item, r.result, FALSE, r.changed)
           /\ leaked' = IF r.result.t = "object" THEN leaked \cup {r.result.n} ELSE leaked
    /\ steps' = steps + 1
    /\ UNCHANGED <<resetId, original, originalStr, model, proxy, deps, schema, probe,
                   other, compiled, limit>>

\* The caller changes an object it holds a plain reference to: cell.age = n.
CallerMutate(c, n) ==
    /\ steps < limit
    /\ c \in RawReach
    /\ heap[c].kind = "object"
    /\ "age" \in OwnProps(heap, c)
    /\ GetProp(heap[c], "age") # Num(n)
    /\ heap' = [heap EXCEPT ![c] = PutProp(@, "age", Num(n))]
    /\ last' = Op("mutate", 0, "age", Num(n), Ref(c), FALSE, FALSE)
    /\ steps' = steps + 1
    /\ UNCHANGED <<proxies, counter, resetId, refreshId, original, originalStr, model,
                   proxy, deps, schema, leaked, probe, other, compiled, limit>>

\* The proxies made by the createProxy of this component.
Owned == (1..Len(proxies)) \ other.owned

Next ==
    \/ \E orig \in Originals : Render(orig)
    \/ reset
    \/ \E p \in Owned : \E path \in PathsFrom(p) :
          \E prop \in ReadProps(p, path) : Get(p, path, prop)
    \/ \E p \in Owned : \E path \in PathsFrom(p) :
          \E prop \in WriteProps(p, path) : \E item \in Items(prop) :
             Set(p, path, prop, item)
    \/ \E p \in Owned : \E path \in PathsFrom(p) : \E method \in Methods :
          \E item \in IF method = "push" THEN Items("0") ELSE {Undef} :
             CallMethod(p, path, method, item)
    \/ \E c \in RawReach, n \in Numbers : CallerMutate(c, n)

Spec == Init /\ [][Next]_vars

----------------------------------------------------------------------------
(* A caller that also passes objects of the original to a method: the     *)
(* element of original.children is pushed to an array of the model data.  *)
(* Every change of the heap is made by a proxy here.                       *)

\* The objects inside the original.
OriginalItems ==
    {Ref(c) : c \in {d \in Reach(heap, original) \ {original} : heap[d].kind = "object"}}

NextAlias ==
    \/ \E orig \in Originals : Render(orig)
    \/ reset
    \/ \E p \in Owned : \E path \in PathsFrom(p) :
          \E prop \in ReadProps(p, path) : Get(p, path, prop)
    \/ \E p \in Owned : \E path \in PathsFrom(p) :
          \E prop \in WriteProps(p, path) : \E item \in Items(prop) :
             Set(p, path, prop, item)
    \/ \E p \in Owned : \E path \in PathsFrom(p) : \E method \in Methods :
          \E item \in IF method = "push" THEN OriginalItems ELSE {Undef} :
             CallMethod(p, path, method, item)

SpecAlias == Init /\ [][NextAlias]_vars

----------------------------------------------------------------------------
(* A caller that keeps the proxies it was given across a reset or a change *)
(* of the original and goes on using them: it pushes its object Item,      *)
(* writes scalars, resets, and has React call useModel with the original   *)
(* or its copy OrigC, MaxDeepSteps operations in all.                      *)

MaxDeepSteps == 4

InitDeep ==
    /\ Mount(OrigA, DefaultSchema)
    /\ last = [op |-> "mount", p |-> 0, prop |-> "", item |-> Undef, result |-> Undef,
               dirty |-> FALSE, cached |-> FALSE, changed |-> TRUE]
    /\ steps = 0
    /\ probe = [all |-> [valid |-> TRUE, errors |-> <<>>], prop |-> NoPath,
                result |-> <<>>, done |-> FALSE]
    /\ other = NoController
    /\ limit = MaxDeepSteps

NextDeep ==
    \/ \E orig \in {OrigA, OrigC} : Render(orig)
    \/ reset
    \/ \E p \in Owned : \E path \in PathsFrom(p) :
          \E prop \in WriteProps(p, path) \cap {"name", "age"} : \E item \in Items(prop) :
             Set(p, path, prop, item)
    \/ \E p \in Owned : \E path \in PathsFrom(p) :
          CallMethod(p, path, "push", Ref(Item))

SpecDeep == InitDeep /\ [][NextDeep]_vars

----------------------------------------------------------------------------
(* Two components call useModel: each has its own states and memos, the    *)
(* counter, the heap and the caller's objects are the same for both.  The  *)
(* second component runs the same code on the hook state kept in other;    *)
(* other.owned are the proxies its createProxy has made, whose refresh     *)
(* sets its refreshId.                                                     *)

\* The first call of useModel(orig, schema) by the second component.
Mount2(orig) ==
    LET str == JSONstringify(heap, orig)
        parsed == JSONparse(str, heap)
    IN  /\ ~other.mounted
        /\ counter' = counter + 2
        /\ heap' = parsed.h
        /\ proxies' = Append(proxies, createProxy(parsed.v.n))
        /\ other' = [mounted |-> TRUE, resetId |-> counter + 1, refreshId |-> counter + 2,
                     original |-> orig, originalStr |-> str, model |-> parsed.v.n,
                     proxy |-> Len(proxies) + 1,
                     deps |-> [resetId |-> counter + 1, refreshId |-> counter + 2],
                     owned |-> {Len(proxies) + 1},
                     compiled |-> [schema |-> SchemaArg(schema, counter), count |-> 1]]
        /\ last' = Op("mount2", Len(proxies) + 1, "", Ref(orig), Undef, FALSE, TRUE)
        /\ UNCHANGED <<resetId, refreshId, original, originalStr, model, proxy, deps,
                       schema, leaked, steps, probe, compiled, limit>>

\* A later call of useModel(orig, schema) by the second component.
useModel2(orig) ==
    LET str == IF orig # other.original THEN JSONstringify(heap, orig) ELSE other.originalStr
        derive == \/ str # other.originalStr
                  \/ orig # other.original
                  \/ other.resetId # other.deps.resetId
        parsed == JSONparse(str, heap)
        newModel == IF derive THEN parsed.v.n ELSE other.model
        wrap == newModel # other.model \/ other.refreshId # other.deps.refreshId
    IN  /\ counter' = counter + 2
        /\ heap' = IF derive THEN parsed.h ELSE heap
        /\ proxies' = IF wrap THEN Append(proxies, createProxy(newModel)) ELSE proxies
        /\ other' = [other EXCEPT
                        !.original = orig,
                        !.originalStr = str,
                        !.model = newModel,
                        !.proxy = IF wrap THEN Len(proxies) + 1 ELSE @,
                        !.deps = [resetId |-> other.resetId, refreshId |-> other.refreshId],
                        !.owned = IF wrap THEN @ \cup {Len(proxies) + 1} ELSE @,
                        !.compiled = memoValidator(@, SchemaArg(schema, counter))]
        /\ last' = Op("render2", other.proxy, "", Ref(orig), Ref(other.original), FALSE, derive)
        /\ UNCHANGED <<resetId, refreshId, original, originalStr, model, proxy, deps,
                       schema, leaked, probe, compiled, limit>>

\* React calls useModel of the second component again.
Render2(orig) ==
    /\ steps < limit
    /\ \/ orig # other.original
       \/ other.resetId # other.deps.resetId
       \/ other.refreshId # other.deps.refreshId
    /\ useModel2(orig)
    /\ steps' = steps + 1

\* What an operation on proxy p of the second component leaves in other: the
\* proxies made on the way are its own, and refresh(), when called, sets its
\* refreshId.
refresh2(ps, called) ==
    /\ other' = [other EXCEPT !.owned = @ \cup ((Len(proxies) + 1)..Len(ps)),
                              !.refreshId = IF called THEN counter + 1 ELSE @]
    /\ counter' = IF called THEN counter + 1 ELSE counter

\* control.reset() of the second component
reset2 ==
    /\ steps < limit
    /\ counter' = counter + 1
    /\ other' = [other EXCEPT !.resetId = counter + 1]
    /\ last' = Op("reset2", 0, "", Undef, Undef, FALSE, FALSE)
    /\ steps' = steps + 1
    /\ UNCHANGED <<heap, proxies, resetId, refreshId, original, originalStr, model, proxy,
                   deps, schema, leaked, probe, compiled, limit>>

\* value = p.path.prop, p a proxy of the second component
Get2(p, path, prop) ==
    /\ steps < limit
    /\ LET nav == navigate(proxies, heap, p, path)
           q == nav.v.n
           r == get(nav.ps, heap, q, prop)
       IN  /\ proxies' = r.ps
           /\ refresh2(r.ps, FALSE)
           /\ last' = Op("get", q, prop, Undef, r.v, prop \in DOMAIN nav.ps[q].getMap, FALSE)
    /\ steps' = steps + 1
    /\ UNCHANGED <<heap, resetId, refreshId, original, originalStr, model, proxy, deps,
                   schema, leaked, probe, compiled, limit>>

\* p.path.prop = item, p a proxy of the second component
Set2(p, path, prop, item) ==
    /\ steps < limit
    /\ LET nav == navigate(proxies, heap, p, path)
           q == nav.v.n
           r == set(nav.ps, heap, q, prop, item)
       IN  /\ proxies' = r.ps
           /\ heap' = r.h
           /\ refresh2(r.ps, r.changed)
           /\ last' = Op("set", q, prop, item, Undef, prop \in DOMAIN nav.ps[q].getMap,
                          r.changed)
    /\ steps' = steps + 1
    /\ UNCHANGED <<resetId, refreshId, original, originalStr, model, proxy, deps, schema,
                   leaked, probe, compiled, limit>>

\* result = p.path.method(item), p a proxy of the second component
CallMethod2(p, path, method, item) ==
    /\ steps < limit
    /\ LET nav == navigate(proxies, heap, p, path)
           q == nav.v.n
           r == wrapper(heap, nav.ps[q].target, method, item)
       IN  /\ heap[nav.ps[q].target].kind = "array"
           /\ get(nav.ps, heap, q, method).v = Fn(method)
           /\ proxies' = nav.ps
           /\ heap' = r.h
           /\ refresh2(nav.ps, r.changed)
           /\ last' = Op(method, q, method, item, r.result, FALSE, r.changed)
           /\ leaked' = IF r.result.t = "object" THEN leaked \cup {r.result.n} ELSE leaked
    /\ steps' = steps + 1
    /\ UNCHANGED <<resetId, refreshId, original, originalStr, model, proxy, deps, schema,
                   probe, compiled, limit>>

\* control.isDirty() and control.findErrors(prop) of the second component
isDirty2 == JSONstringify(heap, other.model) # other.originalStr
findErrors2(prop) == FindErrors(validator(schema, heap, other.model), prop)

InitTwo ==
    /\ Mount(OrigA, SimpleValidate)
    /\ last = [op |-> "mount", p |-> 0, prop |-> "", item |-> Undef, result |-> Undef,
               dirty |-> FALSE, cached |-> FALSE, changed |-> TRUE]
    /\ steps = 0
    /\ probe = [all |-> [valid |-> TRUE, errors |-> <<>>], prop |-> NoPath,
                result |-> <<>>, done |-> FALSE]
    /\ other = NoController
    /\ limit = MaxSteps

\* The second component is there before the caller begins.
NextTwo ==
    \/ \E orig \in {OrigA, OrigC} : Mount2(orig)
    \/ other.mounted /\ Next
    \/ other.mounted /\ \E orig \in Originals : Render2(orig)
    \/ other.mounted /\ reset2
    \/ \E p \in other.owned : \E path \in PathsFrom(p) :
          \E prop \in ReadProps(p, path) : Get2(p, path, prop)
    \/ \E p \in other.owned : \E path \in PathsFrom(p) :
          \E prop \in WriteProps(p, path) : \E item \in Items(prop) :
             Set2(p, path, prop, item)
    \/ \E p \in other.owned : \E path \in PathsFrom(p) : \E method \in Methods :
          \E item \in IF method = "push" THEN Items("0") ELSE {Undef} :
             CallMethod2(p, path, method, item)

SpecTwo == InitTwo /\ [][NextTwo]_vars

----------------------------------------------------------------------------
(* A caller that also asks the control object: control.isDirty() and       *)
(* control.findErrors(prop), as the story does while it renders.           *)

\* The field paths the caller asks findErrors for.
AskedProps == {NoPath, PathArg(Path("name")), PathArg(Path("children"))}

\* A slip: isDirty reports a change of the model data.
CallIsDirty_refreshing ==
    /\ steps < limit
    /\ refresh(TRUE)
    /\ last' = Op("isDirty", 0, "", Undef, Bool(isDirty), last.op = "isDirty", FALSE)
    /\ steps' = steps + 1
    /\ UNCHANGED <<heap, proxies, resetId, original, originalStr, model, proxy, deps,
                   schema, leaked, probe, other, compiled, limit>>

\* result = control.isDirty().  cached tells whether the operation before was
\* the same call.
CallIsDirty ==
    /\ steps < limit
    /\ last' = Op("isDirty", 0, "", Undef, Bool(isDirty), last.op = "isDirty", FALSE)
    /\ steps' = steps + 1
    /\ UNCHANGED <<heap, proxies, counter, resetId, refreshId, original, originalStr,
                   model, proxy, deps, schema, leaked, probe, other, compiled, limit>>

\* result = control.findErrors(prop): probe keeps the validator's result and
\* the result of the call, last.result the number of errors returned.  cached
\* tells whether the operation before was the same call.
CallFindErrors(prop) ==
    /\ steps < limit
    /\ probe' = [all |-> errors, prop |-> prop, result |-> findErrors(prop), done |-> TRUE]
    /\ last' = Op("findErrors", 0, "", Undef, Num(Len(findErrors(prop))),
                   last.op = "findErrors" /\ probe.prop = prop, FALSE)
    /\ steps' = steps + 1
    /\ UNCHANGED <<heap, proxies, counter, resetId, refreshId, original, originalStr,
                   model, proxy, deps, schema, leaked, other, compiled, limit>>

NextObserve ==
    \/ Next
    \/ CallIsDirty
    \/ \E prop \in AskedProps : CallFindErrors(prop)

SpecObserve == Init /\ [][NextObserve]_vars

----------------------------------------------------------------------------
(* findErrors as a function of the validator's result and the field path:  *)
(* every result of at most MaxErrors errors with fields of Fields, every   *)
(* path of Props.                                                          *)

MaxErrors == 2

Fields ==
    { <<>>, <<"a">>, <<"b">>, <<"a", "b">>, <<"a", ".", "b">>, <<"a", "[", "b">>,
      <<"a", "b", ".", "a">>, <<"a", ".">>, <<"a", "[">>, <<".">>, <<"[", "a">>,
      <<"b", ".", "a">> }
Props ==
    {NoPath} \cup {PathArg(c) : c \in {<<>>, <<"a">>, <<"a", "b">>, <<"a", ".">>,
                                       <<"a", "[">>, <<"b">>, <<".">>}}

ErrorLists == UNION {[1..n -> {Error("rule", f) : f \in Fields}] : n \in 1..MaxErrors}
ValidatorResults ==
    {[valid |-> TRUE, errors |-> <<>>]} \cup {[valid |-> FALSE, errors |-> l] : l \in ErrorLists}

InitFind ==
    /\ Mount(OrigS, SimpleValidate)
    /\ other = NoController
    /\ limit = MaxSteps
    /\ last = [op |-> "mount", p |-> 0, prop |-> "", item |-> Undef, result |-> Undef,
               dirty |-> FALSE, cached |-> FALSE, changed |-> TRUE]
    /\ steps = 0
    /\ \E all \in ValidatorResults, prop \in Props :
          probe = [all |-> all, prop |-> prop, result |-> <<>>, done |-> FALSE]

\* control.findErrors(prop), the validator giving probe.all
Find ==
    /\ ~probe.done
    /\ probe' = [probe EXCEPT !.result = FindErrors(probe.all, probe.prop), !.done = TRUE]
    /\ UNCHANGED <<heap, proxies, counter, resetId, refreshId, original, originalStr,
                   model, proxy, deps, schema, leaked, last, steps, other, compiled,
                   limit>>

NextFind == Find

SpecFind == InitFind /\ [][NextFind]_vars

----------------------------------------------------------------------------
(* Notions the properties are stated with.                                 *)

\* Equal content, whatever the order of the keys and the identity of the cells.
RECURSIVE SameContent(_, _, _)
SameContent(h, v, w) ==
    IF v.t = "object" /\ w.t = "object"
    THEN LET a == h[v.n]
             b == h[w.n]
         IN  /\ a.kind = b.kind
             /\ Len(a.vals) = Len(b.vals)
             /\ OwnProps(h, v.n) = OwnProps(h, w.n)
             /\ \A k \in OwnProps(h, v.n) : SameContent(h, GetProp(a, k), GetProp(b, k))
    ELSE v = w

\* What the caller sees when it reads proxy p through and through, written
\* down like JSON.stringify writes a value.
RECURSIVE View(_, _, _), ViewProps(_, _, _, _)
ViewProps(ps, h, p, i) ==
    LET o == h[ps[p].target]
        ks == OwnKeys(o)
        r == get(ps, h, p, ks[i])
    IN  IF i > Len(ks) THEN <<>>
        ELSE (IF i = 1 THEN <<>> ELSE <<",">>)
             \o (IF o.kind = "array" THEN <<>> ELSE <<Quote(ks[i]), ":">>)
             \o (IF r.v.t = "proxy" THEN View(r.ps, h, r.v.n) ELSE <<ScalarToken(r.v)>>)
             \o ViewProps(ps, h, p, i + 1)
View(ps, h, p) ==
    IF h[ps[p].target].kind = "array"
    THEN <<"[">> \o ViewProps(ps, h, p, 1) \o <<"]">>
    ELSE <<"{">> \o ViewProps(ps, h, p, 1) \o <<"}">>

\* The proxies of ps reached from the proxies in from by reads that were made.
RECURSIVE ReadFrom(_, _)
ReadFrom(ps, from) ==
    LET more == from \cup UNION {{ps[p].getMap[k] : k \in DOMAIN ps[p].getMap} : p \in from}
    IN  IF more = from THEN from ELSE ReadFrom(ps, more)

\* The proxies made for the model data in cell m: the proxies useModel has
\* made on m, and the ones reads through them have made.
ProxiesFor(ps, m) == ReadFrom(ps, {p \in 1..Len(ps) : ps[p].target = m})

\* The last operation went to a proxy on a cell of the current model data.
OnModel == last.p \in 1..Len(proxies) /\ proxies[last.p].target \in Reach(heap, model)

----------------------------------------------------------------------------
(* The properties.                                                         *)

\* C1: isDirty() is true exactly when the serialization of the model data
\* differs from the serialization of the original, key order included; it is
\* false right after the creation, and false again once writes have brought
\* the model data back to the original's serialization.
C1_DirtyIffSerializationDiffers ==
    /\ isDirty <=> JSONstringify(heap, model) # JSONstringify(heap, original)
    /\ last.op = "mount" => ~isDirty

\* C1 witness: an effective write has been made, and a write has brought the
\* model data back to the serialization of the original.
C1_Witness ==
    /\ last.op = "set" /\ last.changed /\ last.dirty
    /\ OnModel
    /\ ~isDirty

C3_ReorderedOriginalIsDirty ==
    (/\ last.op = "render"
     /\ SameContent(heap, last.item, last.result)
     /\ JSONstringify(heap, last.item.n) # JSONstringify(heap, last.result.n))
        => isDirty

\* C3 (amended): after the original is replaced by an object of the same
\* content in another key order, isDirty() is false: the model data is derived
\* anew from the new original and has its key order.
C3_ReorderedOriginalIsClean ==
    (/\ last.op = "render"
     /\ SameContent(heap, last.item, last.result)
     /\ JSONstringify(heap, last.item.n) # JSONstringify(heap, last.result.n))
        => /\ ~isDirty
           /\ JSONstringify(heap, model) = JSONstringify(heap, last.item.n)

\* C3 witness: the original has been replaced by a reordered copy.
C3_Witness ==
    /\ last.op = "render"
    /\ last.item # last.result
    /\ SameContent(heap, last.item, last.result)
    /\ JSONstringify(heap, last.item.n) # JSONstringify(heap, last.result.n)

\* C4: when the original changes, even to an object with the same
\* serialization, the model data is derived anew as a clone of the new original
\* from fresh cells, a new proxy is made, and isDirty() is false.
C4_NewOriginalDerivesAnew ==
    [][original' # original
          => /\ \A c \in Reach(heap', model') : c > Len(heap)
             /\ JSONstringify(heap', model') = JSONstringify(heap', original')
             /\ proxy' > Len(proxies)
             /\ proxies'[proxy'] = createProxy(model')
             /\ ~isDirty']_vars

\* C4 witness: the model data had been changed, and the original has been
\* replaced by another object with the same serialization.
C4_Witness ==
    /\ last.op = "render" /\ last.dirty
    /\ last.item # last.result
    /\ JSONstringify(heap, last.item.n) = JSONstringify(heap, last.result.n)
    /\ ~isDirty

\* C5: a read that has given a proxy gives the identical proxy when it is
\* repeated; after an effective write to a property the proxy had in its getMap,
\* the read of the property gives another value than the proxy it gave before.
C5_IdentityStability ==
    [][/\ (last'.op = "get" /\ last'.result.t = "proxy")
            => get(proxies', heap', last'.p, last'.prop)
                  = [v |-> last'.result, ps |-> proxies']
       /\ (last'.op = "set" /\ last'.changed /\ last'.cached /\ last'.p <= Len(proxies)
              /\ last'.prop \in DOMAIN proxies[last'.p].getMap)
            => get(proxies', heap', last'.p, last'.prop).v
                  # PRef(proxies[last'.p].getMap[last'.prop])]_vars

\* C5 witness: a property that had been read as a proxy has been written with
\* an object, and reads as a proxy again.
C5_Witness ==
    /\ last.op = "set" /\ last.changed /\ last.cached
    /\ get(proxies, heap, last.p, last.prop).v.t = "proxy"

\* C6: a method called through a proxy on an array of the model data returns
\* what the array's method returns; when it has changed the array, refresh is
\* called and a clean model becomes dirty; when it has not, isDirty() and the
\* indicators are as before.  The next call of useModel after a refresh makes a
\* new proxy, so that the reads of the array property give a proxy that did not
\* exist before.
C6_MutatorPropagation ==
    [][/\ (last'.op \in Methods /\ last'.p <= Len(proxies'))
            => LET target == proxies'[last'.p].target
                   called == ArrayMethod(heap, target, last'.op, last'.item)
               IN  /\ last'.result = called.result
                   /\ heap'[target] = called.h[target]
                   /\ (heap'[target] # heap[target] /\ target \in Reach(heap, model))
                         => /\ refreshId' # refreshId
                            /\ refreshId' # deps.refreshId
                            /\ ~isDirty => isDirty'
                   /\ heap'[target] = heap[target]
                         => /\ isDirty' = isDirty
                            /\ refreshId' = refreshId
                            /\ counter' = counter
       /\ (last'.op = "render" /\ refreshId # deps.refreshId)
            => /\ proxy' > Len(proxies)
               /\ \A k \in ObjectProps(proxies', heap', proxy') :
                     get(proxies', heap', proxy', k).v.n > Len(proxies)]_vars

\* C6 witness: push on the array of a clean model has made it dirty.
C6_Witness ==
    /\ last.op = "push" /\ ~last.dirty /\ last.changed
    /\ OnModel
    /\ isDirty

\* A field matches a path: it is the path, or the path followed by "." or "["
\* and more.
Matches(field, path) ==
    \/ field = path
    \/ /\ Len(field) > Len(path)
       /\ \A i \in 1..Len(path) : field[i] = path[i]
       /\ field[Len(path) + 1] \in {".", "["}

\* The errors whose field matches the path, in their order.
RECURSIVE Matching(_, _)
Matching(errs, path) ==
    IF errs = <<>> THEN <<>>
    ELSE (IF Matches(Head(errs).field, path) THEN <<Head(errs)>> ELSE <<>>)
         \o Matching(Tail(errs), path)

\* C7 (as claimed): findErrors(fieldPath) returns, in the validator's order, the
\* errors whose field matches fieldPath, for every fieldPath; without a path all
\* errors; nothing when the validator reports no error.
C7_FilterForEveryPath ==
    probe.done =>
        probe.result = IF probe.all.valid THEN <<>>
                       ELSE IF ~probe.prop.given THEN probe.all.errors
                       ELSE Matching(probe.all.errors, probe.prop.chars)

\* C7 (amended): the same for every fieldPath but the empty string; for the
\* empty string, as without a path, findErrors returns all errors.
C7_FilterForNonEmptyPath ==
    probe.done =>
        probe.result = IF probe.all.valid THEN <<>>
                       ELSE IF ~probe.prop.given \/ probe.prop.chars = <<>>
                            THEN probe.all.errors
                       ELSE Matching(probe.all.errors, probe.prop.chars)

\* C7 witness: of two errors, the first with an indexed field under the path,
\* the second with a field the path is only a name prefix of, findErrors has
\* returned the first alone.
C7_Witness ==
    /\ probe.done
    /\ probe.prop = PathArg(<<"a">>)
    /\ probe.all.errors = <<Error("rule", <<"a", "[", "b">>), Error("rule", <<"a", "b">>)>>
    /\ probe.result = <<Error("rule", <<"a", "[", "b">>)>>

\* C8: findErrors shows the model data as it is now.  After a write of name
\* through a proxy on the model data, findErrors('name') has an error exactly
\* when the written value breaks the rule of the schema.  With the original
\* { name: 'Jochen' } and the schema of the story: after name = 'Jo' there is an
\* error and isDirty() is true, after name = 'Jochen' there is no error at all
\* and isDirty() is false.
C8_FindErrorsIsCurrent ==
    (last.op = "set" /\ last.prop = "name" /\ proxies[last.p].target = model)
        => LET breaks == /\ schema = SimpleValidate
                         /\ \/ last.item.t # "string"
                            \/ Len(last.item.s) < MinLen
               story == original = OrigS /\ schema = SimpleValidate
           IN  /\ findErrors(PathArg(Path("name"))) # <<>> <=> breaks
               /\ (story /\ last.item = Str("Jo")) => isDirty
               /\ (story /\ last.item = Str("Jochen"))
                     => findErrors(NoPath) = <<>> /\ ~isDirty

\* C8 witness: in the story, name has been written back to 'Jochen' after
\* another value.
C8_Witness ==
    /\ last.op = "set" /\ last.prop = "name" /\ last.item = Str("Jochen")
    /\ last.changed /\ last.dirty
    /\ proxies[last.p].target = model
    /\ original = OrigS /\ schema = SimpleValidate
    /\ findErrors(NoPath) = <<>>

\* C9 (as claimed): what a read or a method call through a proxy returns is a
\* proxy or a scalar, never a plain reference to an object.
C9_NoPlainReference ==
    last.op \in {"get"} \cup Methods => last.result.t # "object"

\* C10 (as claimed): the model data shares no cell with the caller's objects.
C10_NoSharedCell ==
    Reach(heap, model) \cap (1..Len(CallerHeap)) = {}

\* C11 (as claimed): whatever is read, written and called through the proxies,
\* every object of the original has the content the caller gave it, and the
\* model data shares no object with the original.
C11_OriginalUntouched ==
    /\ \A c \in Reach(CallerHeap, original) : heap[c] = CallerHeap[c]
    /\ Reach(heap, model) \cap Reach(heap, original) = {}

\* C12: a call of isDirty() or findErrors(prop) changes neither the model
\* data, nor a proxy or its getMap, nor the reset and refresh indicators, nor
\* the counter; isDirty() holds after it exactly when it held before; and a
\* call repeated with nothing in between returns what it returned before.
C12_ObserversArePure ==
    [][last'.op \in {"isDirty", "findErrors"}
          => /\ heap' = heap /\ model' = model
             /\ proxies' = proxies /\ proxy' = proxy
             /\ resetId' = resetId /\ refreshId' = refreshId /\ counter' = counter
             /\ isDirty' <=> isDirty
             /\ last'.op = "isDirty" => last'.result = Bool(isDirty)
             /\ (last'.op = "isDirty" /\ last'.cached) => last'.result = last.result
             /\ (last'.op = "findErrors" /\ last'.cached) => probe'.result = probe.result]_vars

\* C12 witness: findErrors, asked twice in a row on changed model data that
\* break a rule, has returned the errors.
C12_Witness ==
    /\ last.op = "findErrors" /\ last.cached
    /\ last.dirty /\ isDirty
    /\ probe.result # <<>>

\* C13: an operation through a proxy of a component that changes the
\* serialization of that component's model data sets its refreshId to a value
\* above the counter, hence above every value an indicator of either component
\* has had (they are all taken from the counter, which never goes down), so
\* that the call of useModel that makes the new proxy is due; this for every
\* such operation, also for several before the next call of useModel.
C13_EveryMutationNotifies ==
    [][/\ counter' >= counter
       /\ resetId <= counter /\ refreshId <= counter
       /\ other.resetId <= counter /\ other.refreshId <= counter
       /\ (/\ last'.op \in {"set"} \cup Methods
           /\ last'.p \in Owned'
           /\ JSONstringify(heap', model) # JSONstringify(heap, model))
             => /\ refreshId' > counter
                /\ refreshId' = counter'
                /\ refreshId' # deps'.refreshId
       /\ (/\ other.mounted
           /\ last'.op \in {"set"} \cup Methods
           /\ last'.p \in other'.owned
           /\ JSONstringify(heap', other.model) # JSONstringify(heap, other.model))
             => /\ other'.refreshId > counter
                /\ other'.refreshId = counter'
                /\ other'.refreshId # other'.deps.refreshId]_vars

\* C13 witness: with no call of useModel and no reset in between, the first
\* component has changed its model data, then the second its own, then the
\* first again.
C13_Witness ==
    /\ other.mounted
    /\ last.op \in {"set"} \cup Methods /\ last.changed /\ last.p \in Owned
    /\ refreshId = counter
    /\ other.refreshId = counter - 1
    /\ other.refreshId = other.deps.refreshId + 2
    /\ resetId = deps.resetId /\ other.resetId = other.deps.resetId
    /\ isDirty /\ isDirty2

\* C14: a write of a value identical (===) to the one the target has under the
\* property changes nothing: not the heap, not the getMap of the proxy, not
\* refreshId, not the counter.  Every other write takes the property out of
\* the getMap, stores undefined as it is and any other value as a JSON copy
\* made of new cells, and calls refresh once.
C14_SameValueWriteIsNoOp ==
    [][last'.op = "set"
          => LET q == last'.p
                 k == last'.prop
                 item == last'.item
                 target == proxies'[q].target
                 now == GetProp(heap'[target], k)
             IN  IF GetProp(heap[target], k) = item
                 THEN /\ heap' = heap
                      /\ q <= Len(proxies) => proxies'[q] = proxies[q]
                      /\ refreshId' = refreshId /\ counter' = counter
                      /\ ~last'.changed
                 ELSE /\ k \notin DOMAIN proxies'[q].getMap
                      /\ item = Undef => now = Undef
                      /\ item # Undef
                            => /\ JSONstringifyValue(heap', now) = JSONstringifyValue(heap, item)
                               /\ now.t = item.t
                               /\ now.t = "object"
                                     => \A c \in Reach(heap', now.n) : c > Len(heap)
                      /\ refreshId' = counter + 1 /\ counter' = counter + 1
                      /\ last'.changed]_vars

\* C14 witness: a property read before as a proxy has been written with the
\* very object it holds, and nothing has changed.
C14_Witness ==
    /\ last.op = "set" /\ ~last.changed /\ last.cached
    /\ last.item.t = "object"
    /\ GetProp(heap[proxies[last.p].target], last.prop) = last.item
    /\ last.prop \in DOMAIN proxies[last.p].getMap

\* C15 (as claimed): in every state, a read of a property through a proxy
\* returns what the target holds under the property now: a scalar as it is, an
\* object as a proxy on that very object.
C15_ReadsAreCurrent ==
    \A p \in 1..Len(proxies) :
        \A k \in OwnProps(heap, proxies[p].target) \cup DOMAIN proxies[p].getMap :
            LET r == get(proxies, heap, p, k)
                stored == GetProp(heap[proxies[p].target], k)
            IN  IF r.v.t = "proxy"
                THEN stored = Ref(r.ps[r.v.n].target)
                ELSE r.v = stored

\* C16: a proxy, once made, keeps its target, and an entry of its getMap
\* stays as it is through every operation but an effective write of that
\* property through that proxy: after a write of k through a proxy, the read
\* of every other cached property of that proxy, and of every cached property
\* of every other proxy, returns the identical proxy as before.  A proxy that
\* useModel makes anew begins with an empty getMap.
C16_PerKeyInvalidation ==
    [][/\ \A p \in 1..Len(proxies) :
             /\ p <= Len(proxies') /\ proxies'[p].target = proxies[p].target
             /\ \A j \in DOMAIN proxies[p].getMap :
                   \/ get(proxies', heap', p, j) = [v |-> PRef(proxies[p].getMap[j]),
                                                    ps |-> proxies']
                   \/ /\ last'.op = "set" /\ last'.changed
                      /\ last'.p = p /\ last'.prop = j
       /\ (last'.op = "set" /\ last'.changed) => last'.prop \notin DOMAIN proxies'[last'.p].getMap
       /\ proxy' # proxy => proxy' > Len(proxies) /\ proxies'[proxy'].getMap = <<>>]_vars

\* C16 witness: a property of a proxy has been written that has another
\* property in its getMap, and still has it; so has another proxy.
C16_Witness ==
    /\ last.op = "set" /\ last.changed
    /\ DOMAIN proxies[last.p].getMap # {}
    /\ last.prop \notin DOMAIN proxies[last.p].getMap
    /\ \E p \in 1..Len(proxies) : p # last.p /\ DOMAIN proxies[p].getMap # {}

\* C17 (as claimed): an operation of one component (a read, a write or a call
\* through one of its proxies, its reset, its call of useModel) leaves to the
\* other component its model data, the results of its isDirty() and
\* findErrors(), its proxies and their getMaps.
C17_ControllerIsolation ==
    [][other.mounted =>
          /\ (\/ last'.op \in {"reset", "render"}
              \/ last'.op \in {"get", "set"} \cup Methods /\ last'.p \in Owned')
                => /\ other' = other
                   /\ JSONstringify(heap', other.model) = JSONstringify(heap, other.model)
                   /\ isDirty2' <=> isDirty2
                   /\ findErrors2(NoPath)' = findErrors2(NoPath)
                   /\ \A p \in other.owned : proxies'[p] = proxies[p]
          /\ (\/ last'.op \in {"reset2", "render2"}
              \/ last'.op \in {"get", "set"} \cup Methods /\ last'.p \in other'.owned)
                => /\ model' = model /\ proxy' = proxy
                   /\ resetId' = resetId /\ refreshId' = refreshId
                   /\ JSONstringify(heap', model) = JSONstringify(heap, model)
                   /\ isDirty' <=> isDirty
                   /\ findErrors(NoPath)' = findErrors(NoPath)
                   /\ \A p \in Owned : proxies'[p] = proxies[p]]_vars

\* C18 (as claimed): the caller passes the same schema argument to every call
\* of useModel (its one schema object, or none), so the validator has been
\* compiled once, in the first call, whatever calls have followed.
C18_CompiledOnce ==
    compiled.count = 1

\* C19 (as claimed): a call of useModel after reset() or with another original
\* derives the model data anew, equal to the original and made of new cells no
\* earlier proxy has as its target, and makes a new proxy for it; and a write or
\* a method call through a proxy that was not made for the current model data
\* leaves the current model data as it is.
C19_ResetWinsOverStaleProxies ==
    [][/\ (last'.op = "render" /\ (resetId # deps.resetId \/ original' # original))
            => /\ JSONstringify(heap', model') = JSONstringify(heap', original')
               /\ \A c \in Reach(heap', model') : c > Len(heap)
               /\ \A p \in 1..Len(proxies) :
                     proxies[p].target \notin Reach(heap', model')
               /\ proxy' > Len(proxies) /\ proxies'[proxy'] = createProxy(model')
       /\ (/\ last'.op \in {"set"} \cup Methods
           /\ last'.p \notin ProxiesFor(proxies', model))
            => JSONstringify(heap', model) = JSONstringify(heap, model)]_vars

====
